---- MODULE Spec2Model ----
(***************************************************************************)
(* Driver's license analyzer (src/main.py): a Streamlit script that is     *)
(* re-executed from the top on every user interaction.  One script run is  *)
(* modelled as the steps module level -> sidebar -> model initialisation   *)
(* -> main area (-> remote call in flight) -> idle.  Text is a sequence of *)
(* Unicode code points; bytes are sequences of 0..255.                     *)
(***************************************************************************)
EXTENDS Integers, Sequences, FiniteSets, TLC

\* Longest instruction text the user types, longest reply the remote model returns.
MaxPromptLen == 2
MaxReplyLen == 1

\* Characters the user types: space, "a".  Characters of a reply: "a", U+00E9.
PromptAlphabet == {32, 97}
ReplyAlphabet == {97, 233}

Texts(alphabet, n) == UNION {[1..k -> alphabet] : k \in 0..n}

Prompts == Texts(PromptAlphabet, MaxPromptLen)
Replies == Texts(ReplyAlphabet, MaxReplyLen)

(***************************************************************************)
(* Fixed text of the source's f-strings, as code points.                   *)
(***************************************************************************)
\* 56 code points: full_prompt up to {custom_prompt}.
PromptPrefix ==
    <<10, 32, 32, 32, 32, 32, 32, 32, 32, 80, 108, 101, 97, 115, 101, 32, 97, 110, 97, 108,
       121, 122, 101, 32, 116, 104, 105, 115, 32, 100, 114, 105, 118, 101, 114, 39, 115, 32,
       108, 105, 99, 101, 110, 115, 101, 32, 105, 109, 97, 103, 101, 32, 97, 110, 100, 32>>

\* 167 code points: full_prompt after {custom_prompt}.
PromptSuffix ==
    <<10, 32, 32, 32, 32, 32, 32, 32, 32, 10, 32, 32, 32, 32, 32, 32, 32, 32, 80, 108, 101,
       97, 115, 101, 32, 112, 114, 111, 118, 105, 100, 101, 32, 116, 104, 101, 32, 105, 110,
       102, 111, 114, 109, 97, 116, 105, 111, 110, 32, 105, 110, 32, 97, 32, 99, 108, 101, 97,
       114, 44, 32, 115, 116, 114, 117, 99, 116, 117, 114, 101, 100, 32, 102, 111, 114, 109,
       97, 116, 46, 10, 32, 32, 32, 32, 32, 32, 32, 32, 73, 102, 32, 97, 110, 121, 32, 105,
       110, 102, 111, 114, 109, 97, 116, 105, 111, 110, 32, 105, 115, 32, 117, 110, 99, 108,
       101, 97, 114, 32, 111, 114, 32, 99, 97, 110, 110, 111, 116, 32, 98, 101, 32, 114, 101,
       97, 100, 44, 32, 112, 108, 101, 97, 115, 101, 32, 105, 110, 100, 105, 99, 97, 116, 101,
       32, 116, 104, 97, 116, 46, 10, 32, 32, 32, 32, 32, 32, 32, 32>>

\* 165 code points: result_str up to {analysis}.
ResultHeader ==
    <<10, 32, 32, 32, 32, 32, 32, 32, 32, 32, 32, 32, 32, 32, 32, 32, 32, 32, 32, 32, 32, 32,
       32, 32, 32, 68, 114, 105, 118, 101, 114, 39, 115, 32, 76, 105, 99, 101, 110, 115, 101,
       32, 65, 110, 97, 108, 121, 115, 105, 115, 32, 82, 101, 115, 117, 108, 116, 115, 10, 32,
       32, 32, 32, 32, 32, 32, 32, 32, 32, 32, 32, 32, 32, 32, 32, 32, 32, 32, 32, 32, 32, 32,
       32, 45, 45, 45, 45, 45, 45, 45, 45, 45, 45, 45, 45, 45, 45, 45, 45, 45, 45, 45, 45, 45,
       45, 45, 45, 45, 45, 45, 45, 45, 45, 45, 45, 10, 32, 32, 32, 32, 32, 32, 32, 32, 32, 32,
       32, 32, 32, 32, 32, 32, 32, 32, 32, 32, 32, 32, 32, 32, 10, 32, 32, 32, 32, 32, 32, 32,
       32, 32, 32, 32, 32, 32, 32, 32, 32, 32, 32, 32, 32, 32, 32, 32, 32>>

\* 25 code points: result_str after {analysis}.
ResultFooter ==
    <<10, 32, 32, 32, 32, 32, 32, 32, 32, 32, 32, 32, 32, 32, 32, 32, 32, 32, 32, 32, 32, 32,
       32, 32, 32>>

\* 32 code points: href up to {b64}.
HrefPrefix ==
    <<60, 97, 32, 104, 114, 101, 102, 61, 34, 100, 97, 116, 97, 58, 116, 101, 120, 116, 47,
       112, 108, 97, 105, 110, 59, 98, 97, 115, 101, 54, 52, 44>>

\* 63 code points: href after {b64}.
HrefSuffix ==
    <<34, 32, 100, 111, 119, 110, 108, 111, 97, 100, 61, 34, 108, 105, 99, 101, 110, 115, 101,
       95, 97, 110, 97, 108, 121, 115, 105, 115, 46, 116, 120, 116, 34, 62, 68, 111, 119, 110,
       108, 111, 97, 100, 32, 65, 110, 97, 108, 121, 115, 105, 115, 32, 82, 101, 115, 117, 108,
       116, 115, 60, 47, 97, 62>>

(***************************************************************************)
(* Conversions: str.encode(), bytes.decode(), base64.b64encode.            *)
(***************************************************************************)
\* UTF-8 bytes of one code point (code points below 65536).
Utf8Char(cp) ==
    IF cp < 128 THEN <<cp>>
    ELSE IF cp < 2048 THEN <<192 + (cp \div 64), 128 + (cp % 64)>>
    ELSE <<224 + (cp \div 4096), 128 + ((cp \div 64) % 64), 128 + (cp % 64)>>

\* Recursion splits the index range in halves, which keeps its depth logarithmic.
RECURSIVE EncodeRange(_, _, _)
EncodeRange(s, lo, hi) ==
    IF lo > hi THEN <<>>
    ELSE IF lo = hi THEN Utf8Char(s[lo])
    ELSE LET mid == (lo + hi) \div 2
         IN EncodeRange(s, lo, mid) \o EncodeRange(s, mid + 1, hi)

\* Mutant: str.encode('ascii', 'replace'), every non-ASCII character becomes "?".
encode_ascii(s) == [i \in 1..Len(s) |-> IF s[i] < 128 THEN s[i] ELSE 63]

\* str.encode(): the UTF-8 bytes of a string.
encode(s) == EncodeRange(s, 1, Len(s))

\* The code point that starts at byte i: none at a continuation byte.
Utf8At(b, i) ==
    IF b[i] < 128 THEN <<b[i]>>
    ELSE IF b[i] < 192 THEN <<>>
    ELSE IF b[i] < 224 THEN <<(b[i] - 192) * 64 + (b[i + 1] - 128)>>
    ELSE <<(b[i] - 224) * 4096 + (b[i + 1] - 128) * 64 + (b[i + 2] - 128)>>

RECURSIVE DecodeRange(_, _, _)
DecodeRange(b, lo, hi) ==
    IF lo > hi THEN <<>>
    ELSE IF lo = hi THEN Utf8At(b, lo)
    ELSE LET mid == (lo + hi) \div 2
         IN DecodeRange(b, lo, mid) \o DecodeRange(b, mid + 1, hi)

\* bytes.decode(): the string of well-formed UTF-8 bytes.
decode(b) == DecodeRange(b, 1, Len(b))

\* The base64 alphabet: A-Z, a-z, 0-9, "+", "/".
B64Char(v) ==
    IF v < 26 THEN 65 + v
    ELSE IF v < 52 THEN 97 + (v - 26)
    ELSE IF v < 62 THEN 48 + (v - 52)
    ELSE IF v = 62 THEN 43 ELSE 47

\* The four characters of the group of up to three bytes that starts at byte i.
B64Group(b, i) ==
    LET left == Len(b) - i + 1 IN
    IF left = 1
    THEN <<B64Char(b[i] \div 4), B64Char((b[i] % 4) * 16), 61, 61>>
    ELSE IF left = 2
         THEN <<B64Char(b[i] \div 4),
                B64Char((b[i] % 4) * 16 + (b[i + 1] \div 16)),
                B64Char((b[i + 1] % 16) * 4), 61>>
    ELSE <<B64Char(b[i] \div 4),
           B64Char((b[i] % 4) * 16 + (b[i + 1] \div 16)),
           B64Char((b[i + 1] % 16) * 4 + (b[i + 2] \div 64)),
           B64Char(b[i + 2] % 64)>>

RECURSIVE B64Groups(_, _, _)
B64Groups(b, lo, hi) ==
    IF lo > hi THEN <<>>
    ELSE IF lo = hi THEN B64Group(b, 3 * lo - 2)
    ELSE LET mid == (lo + hi) \div 2
         IN B64Groups(b, lo, mid) \o B64Groups(b, mid + 1, hi)

\* base64.b64encode: bytes to base64 bytes, "=" padded.
b64encode(b) == B64Groups(b, 1, (Len(b) + 2) \div 3)

(***************************************************************************)
(* Data.                                                                   *)
(***************************************************************************)
\* Colour modes an uploaded picture can be stored in.
Modes == {"RGB", "RGBA", "L"}

\* The file uploader's value: None, or an uploaded file.  "notimage": the bytes
\* are no picture (Image.open raises); "image": a complete picture; "truncated":
\* a picture with a readable header whose pixel data cannot be loaded.
NoFile == [kind |-> "none", mode |-> "none"]
Files == [kind : {"image", "truncated"}, mode : Modes]
             \cup {[kind |-> "notimage", mode |-> "none"]}

\* Optional[Image.Image]: None, or a PIL image.
NoImage == [kind |-> "none", mode |-> "none", converted |-> FALSE, file |-> NoFile]

\* os.environ: the credential is unset, set to the empty string, or set.
NoValue == [set |-> FALSE, value |-> ""]
Environments == {NoValue, [set |-> TRUE, value |-> ""], [set |-> TRUE, value |-> "key"]}

\* One rendered element of the page.
El(kind) == [kind |-> kind, text |-> <<>>, image |-> NoImage]
ElText(kind, text) == [kind |-> kind, text |-> text, image |-> NoImage]
ElImage(kind, image) == [kind |-> kind, text |-> <<>>, image |-> image]

\* One part of a message to the remote model, and one message.
TextPart(text) == [type |-> "text", text |-> text, image |-> NoImage]
ImagePart(image) == [type |-> "image", text |-> <<>>, image |-> image]
Content(role, parts) == [role |-> role, parts |-> parts]

VARIABLES
    environ,         \* the process environment's GEMINI_API_KEY entry
    GEMINI_API_KEY,  \* module global, line 19
    configured,      \* genai.configure has run, line 25
    pc,              \* position of the script run
    uploaded_file,   \* file uploader widget
    custom_prompt,   \* text area widget
    clicked,         \* the run was started by a click on "Analyze License"
    model,           \* main()'s local: "none" or "model"
    display,         \* elements rendered by the current run, in order
    chat,            \* the ChatSession analyze_license created last: its history
    sent,            \* contents of the request send_message issued in this run
    sendCount,       \* send_message calls in this run
    callResult,      \* "none", "pending", "ok" (text returned), "raised"
    earlier          \* a session created before this run's call held an exchange

vars == <<environ, GEMINI_API_KEY, configured, pc, uploaded_file, custom_prompt,
          clicked, model, display, chat, sent, sendCount, callResult, earlier>>

(***************************************************************************)
(* Functions of main.py.                                                   *)
(***************************************************************************)
\* os.getenv("GEMINI_API_KEY"): None when unset.
getenv(env) == env

\* Mutant: GEMINI_API_KEY is None, which lets the empty string through.
KeyMissing_unsetOnly(key) == ~key.set

\* not GEMINI_API_KEY: None and the empty string are falsy.
KeyMissing(key) == ~key.set \/ key.value = ""

\* Mutant: only pictures with an alpha channel are converted.
NeedsConvert_alphaOnly(mode) == mode = "RGBA"

\* image.mode != 'RGB'
NeedsConvert(mode) == mode # "RGB"

\* process_image: Image.open raises on bytes that are no picture; convert
\* loads the pixel data and raises on a truncated file; any exception is
\* logged and None is returned.
process_image(image_file) ==
    IF image_file.kind = "notimage" THEN NoImage
    ELSE IF NeedsConvert(image_file.mode)
         THEN IF image_file.kind = "truncated" THEN NoImage
              ELSE [kind |-> "image", mode |-> "RGB", converted |-> TRUE,
                    file |-> image_file]
    ELSE [kind |-> "image", mode |-> image_file.mode, converted |-> FALSE,
          file |-> image_file]

\* Mutant: the result of process_image is used unchecked.
ImageUsable_always(image) == TRUE

\* Truthiness of an Optional[Image.Image] (if image:).
ImageUsable(image) == image.kind # "none"

\* Mutant: the button is offered as soon as a file is uploaded.
AnalyzeOffered_fileOnly(file, prompt) == file.kind # "none"

\* uploaded_file and custom_prompt
AnalyzeOffered(file, prompt) == file.kind # "none" /\ prompt # <<>>

\* Mutant: the session is opened on the history of the session before it.
StartHistory_carried(previous) == previous

\* history=[] of model.start_chat; previous is the session created before.
StartHistory(previous) == <<>>

\* Mutant: custom_prompt.strip() is interpolated.
full_prompt_stripped(prompt) ==
    LET solid == {i \in 1..Len(prompt) : prompt[i] \notin {9, 10, 13, 32}}
        first == CHOOSE i \in solid : \A j \in solid : i <= j
        last == CHOOSE i \in solid : \A j \in solid : j <= i
    IN PromptPrefix
         \o (IF solid = {} THEN <<>> ELSE SubSeq(prompt, first, last))
         \o PromptSuffix

\* The f-string of lines 67-72.
full_prompt(prompt) == PromptPrefix \o prompt \o PromptSuffix

\* The list handed to chat.send_message.
Message(prompt, image) ==
    Content("user", <<TextPart(full_prompt(prompt)), ImagePart(image)>>)

\* The f-string of lines 156-161.
result_str(analysis) == ResultHeader \o analysis \o ResultFooter

\* Lines 162-163.
href(analysis) ==
    HrefPrefix \o decode(b64encode(encode(result_str(analysis)))) \o HrefSuffix

\* Mutant: the download link is left out.
RenderResults_noLink(shown, analysis) ==
    shown \o <<El("subheader_results"), ElText("markdown", analysis)>>

\* Lines 152-164: what a successful analysis renders.
RenderResults(shown, analysis) ==
    shown \o <<El("subheader_results"), ElText("markdown", analysis),
               ElText("link", href(analysis))>>

\* Mutant: the exception is swallowed (except: pass).
RenderAnalysisError_silent(shown) == shown

\* Line 167.
RenderAnalysisError(shown) == Append(shown, El("error_analysis"))

(***************************************************************************)
(* Steps of one script run.                                                *)
(***************************************************************************)
Init ==
    /\ environ \in Environments
    /\ GEMINI_API_KEY = NoValue
    /\ configured = FALSE
    /\ pc = "module"
    /\ uploaded_file = NoFile
    /\ custom_prompt = <<>>
    /\ clicked = FALSE
    /\ model = "none"
    /\ display = <<>>
    /\ chat = <<>>
    /\ sent = <<>>
    /\ sendCount = 0
    /\ callResult = "none"
    /\ earlier = FALSE

\* Lines 16-22 with the credential absent: ValueError ends the run.
StartupFail ==
    /\ pc = "module"
    /\ KeyMissing(getenv(environ))
    /\ GEMINI_API_KEY' = getenv(environ)
    /\ pc' = "crashed"
    /\ UNCHANGED <<environ, configured, uploaded_file, custom_prompt, clicked,
                   model, display, chat, sent, sendCount, callResult,
                   earlier>>

\* Lines 16-25 with the credential present: the client is configured.
StartupConfigure ==
    /\ pc = "module"
    /\ ~KeyMissing(getenv(environ))
    /\ GEMINI_API_KEY' = getenv(environ)
    /\ configured' = TRUE
    /\ pc' = "sidebar"
    /\ UNCHANGED <<environ, uploaded_file, custom_prompt, clicked, model,
                   display, chat, sent, sendCount, callResult, earlier>>

\* Lines 93-108: the preview.  st.image loads the pixel data, which may raise
\* on a truncated file; main's except then shows an error.
Sidebar ==
    /\ pc = "sidebar"
    /\ \E loadRaises \in BOOLEAN :
         LET image == process_image(uploaded_file) IN
         display' =
            IF uploaded_file.kind # "none" /\ ImageUsable(image)
            THEN IF image.file.kind = "truncated" /\ loadRaises
                 THEN display \o <<El("subheader_preview"), El("error_sidebar")>>
                 ELSE display \o <<El("subheader_preview"), ElImage("image", image)>>
            ELSE display
    /\ pc' = "init"
    /\ UNCHANGED <<environ, GEMINI_API_KEY, configured, uploaded_file,
                   custom_prompt, clicked, model, chat, sent, sendCount, callResult,
                   earlier>>

\* Lines 129-134: initialize_model returns a model, or raises and main returns.
InitializeModel ==
    /\ pc = "init"
    /\ \E ok \in BOOLEAN :
         IF ok
         THEN /\ model' = "model"
              /\ pc' = "main"
              /\ UNCHANGED display
         ELSE /\ display' = Append(display, El("error_init"))
              /\ pc' = "idle"
              /\ UNCHANGED model
    /\ UNCHANGED <<environ, GEMINI_API_KEY, configured, uploaded_file,
                   custom_prompt, clicked, chat, sent, sendCount, callResult, earlier>>

\* Lines 137-150 and 168-172: the text area, the button, and on a click the
\* request of analyze_license (lines 64-78) up to send_message.
MainArea ==
    /\ pc = "main"
    /\ LET d1 == Append(display, El("text_area"))
           d2 == Append(d1, El("button"))
           image == process_image(uploaded_file)
       IN
       IF AnalyzeOffered(uploaded_file, custom_prompt)
       THEN IF clicked /\ ImageUsable(image)
            THEN /\ display' = d2
                 /\ chat' = StartHistory(chat)
                 /\ sent' = StartHistory(chat) \o <<Message(custom_prompt, image)>>
                 /\ sendCount' = sendCount + 1
                 /\ callResult' = "pending"
                 /\ earlier' = (chat # <<>>)
                 /\ pc' = "calling"
            ELSE /\ display' = d2
                 /\ pc' = "idle"
                 /\ UNCHANGED <<chat, sent, sendCount, callResult, earlier>>
       ELSE /\ display' =
                  IF uploaded_file.kind = "none" THEN Append(d1, El("info_upload"))
                  ELSE IF custom_prompt = <<>> THEN Append(d1, El("info_prompt"))
                  ELSE d1
            /\ pc' = "idle"
            /\ UNCHANGED <<chat, sent, sendCount, callResult, earlier>>
    /\ UNCHANGED <<environ, GEMINI_API_KEY, configured, uploaded_file,
                   custom_prompt, clicked, model>>

\* Lines 75-80 and 152-164: the remote model replies with text; the session
\* records the exchange and main renders the text and the download link.
RemoteReply ==
    /\ pc = "calling"
    /\ \E text \in Replies :
         /\ chat' = sent \o <<Content("model", <<TextPart(text)>>)>>
         /\ display' = RenderResults(display, text)
    /\ callResult' = "ok"
    /\ pc' = "idle"
    /\ UNCHANGED <<environ, GEMINI_API_KEY, configured, uploaded_file,
                   custom_prompt, clicked, model, sent, sendCount, earlier>>

\* Lines 81-83 and 166-167: send_message or response.text raises; the
\* exception is logged, re-raised, and main shows the error.
RemoteFail ==
    /\ pc = "calling"
    /\ \E replied \in BOOLEAN :
         chat' = IF replied THEN sent \o <<Content("model", <<>>)>> ELSE chat
    /\ display' = RenderAnalysisError(display)
    /\ callResult' = "raised"
    /\ pc' = "idle"
    /\ UNCHANGED <<environ, GEMINI_API_KEY, configured, uploaded_file,
                   custom_prompt, clicked, model, sent, sendCount, earlier>>

(***************************************************************************)
(* The user: every interaction starts a new script run.                    *)
(***************************************************************************)
Rerun ==
    /\ pc' = "module"
    /\ model' = "none"
    /\ display' = <<>>
    /\ sent' = <<>>
    /\ sendCount' = 0
    /\ callResult' = "none"
    /\ earlier' = FALSE
    /\ UNCHANGED <<environ, GEMINI_API_KEY, configured, chat>>

UploadFile ==
    /\ pc = "idle"
    /\ \E f \in Files \ {uploaded_file} : uploaded_file' = f
    /\ clicked' = FALSE
    /\ UNCHANGED custom_prompt
    /\ Rerun

RemoveFile ==
    /\ pc = "idle"
    /\ uploaded_file # NoFile
    /\ uploaded_file' = NoFile
    /\ clicked' = FALSE
    /\ UNCHANGED custom_prompt
    /\ Rerun

EditPrompt ==
    /\ pc = "idle"
    /\ \E p \in Prompts \ {custom_prompt} : custom_prompt' = p
    /\ clicked' = FALSE
    /\ UNCHANGED uploaded_file
    /\ Rerun

\* Only a rendered button can be clicked.
ClickAnalyze ==
    /\ pc = "idle"
    /\ \E i \in 1..Len(display) : display[i].kind = "button"
    /\ clicked' = TRUE
    /\ UNCHANGED <<uploaded_file, custom_prompt>>
    /\ Rerun

Next ==
    \/ StartupFail
    \/ StartupConfigure
    \/ Sidebar
    \/ InitializeModel
    \/ MainArea
    \/ RemoteReply
    \/ RemoteFail
    \/ UploadFile
    \/ RemoveFile
    \/ EditPrompt
    \/ ClickAnalyze

Spec == Init /\ [][Next]_vars

(***************************************************************************)
(* What the browser does with the download link, and helpers of the        *)
(* properties.                                                             *)
(***************************************************************************)
\* Value of a base64 character; "=" counts as 0.
B64Value(c) ==
    IF c >= 65 /\ c <= 90 THEN c - 65
    ELSE IF c >= 97 /\ c <= 122 THEN c - 97 + 26
    ELSE IF c >= 48 /\ c <= 57 THEN c - 48 + 52
    ELSE IF c = 43 THEN 62
    ELSE IF c = 47 THEN 63 ELSE 0

\* The bytes of the four characters that start at character i.
AtobGroup(s, i) ==
    LET n == B64Value(s[i]) * 262144 + B64Value(s[i + 1]) * 4096
               + B64Value(s[i + 2]) * 64 + B64Value(s[i + 3])
        all == <<n \div 65536, (n \div 256) % 256, n % 256>>
    IN IF s[i + 2] = 61 THEN SubSeq(all, 1, 1)
       ELSE IF s[i + 3] = 61 THEN SubSeq(all, 1, 2)
       ELSE all

RECURSIVE AtobGroups(_, _, _)
AtobGroups(s, lo, hi) ==
    IF lo > hi THEN <<>>
    ELSE IF lo = hi THEN AtobGroup(s, 4 * lo - 3)
    ELSE LET mid == (lo + hi) \div 2
         IN AtobGroups(s, lo, mid) \o AtobGroups(s, mid + 1, hi)

\* Base64 decoding of a data URI's payload.
Atob(s) == AtobGroups(s, 1, Len(s) \div 4)

\* The text of the file the browser saves from a rendered link.
Artifact(link) ==
    LET payload == SubSeq(link, Len(HrefPrefix) + 1, Len(link) - Len(HrefSuffix))
    IN DecodeRange(Atob(payload), 1, Len(Atob(payload)))

Contains(part, whole) ==
    \E i \in 0..(Len(whole) - Len(part)) : SubSeq(whole, i + 1, i + Len(part)) = part

Has(kind) == \E i \in 1..Len(display) : display[i].kind = kind
Count(kind) == Cardinality({i \in 1..Len(display) : display[i].kind = kind})
Shown(kind) == display[CHOOSE i \in 1..Len(display) : display[i].kind = kind]

\* The text the remote model returned to the call of this run.
ReturnedText == chat[Len(chat)].parts[1].text

(***************************************************************************)
(* Properties.                                                             *)
(***************************************************************************)
\* C1: a remote call is made in a run only if a file is uploaded, the
\* instructions are non-empty and the run was started by a click on the
\* button; with empty instructions no button is rendered and no call is made.
C1_CallNeedsFilePromptClick ==
    /\ (sendCount > 0 \/ sent # <<>> \/ callResult # "none")
          => (uploaded_file # NoFile /\ custom_prompt # <<>> /\ clicked)
    /\ custom_prompt = <<>>
          => (~Has("button") /\ sendCount = 0 /\ sent = <<>> /\ callResult = "none")

C1_Witness == sendCount = 1 /\ callResult = "ok" /\ clicked

C3_ResultVerbatim ==
    callResult = "ok"
        => /\ Count("markdown") = 1 /\ Count("link") = 1
           /\ Shown("markdown").text = ReturnedText
           /\ SubSeq(Shown("link").text, 1, Len(HrefPrefix)) = HrefPrefix
           /\ Artifact(Shown("link").text) = ResultHeader \o ReturnedText \o ResultFooter
           /\ Contains(ReturnedText, Artifact(Shown("link").text))

C3_Witness == callResult = "ok" /\ ReturnedText = <<233>> /\ Has("link")

\* C4: when the credential is unset or empty, the client is never
\* configured, no model is initialised, nothing is rendered and no request
\* is made: the run ends at the module-level check.
C4_NoStartWithoutKey ==
    (~environ.set \/ environ.value = "")
        => /\ ~configured /\ model = "none" /\ display = <<>>
           /\ sendCount = 0 /\ sent = <<>>
           /\ pc \in {"module", "crashed"}

C4_Witness == pc = "crashed" /\ environ.set /\ environ.value = ""

\* C5: at the end of a run, each failure that happened in it (undecodable
\* image, missing instructions, failed remote call, failed model
\* initialisation) has a message on the page.
C5_EveryFailureShown ==
    LET message == \E i \in 1..Len(display) :
                      display[i].kind \in {"error_sidebar", "error_init",
                                           "error_analysis", "info_upload",
                                           "info_prompt"}
    IN pc = "idle"
         => /\ (uploaded_file # NoFile /\ process_image(uploaded_file) = NoImage)
                  => message
            /\ custom_prompt = <<>> => message
            /\ callResult = "raised" => Has("error_analysis")
            /\ model = "none" => Has("error_init")

\* C6: a failed remote call was attempted once, its exception reached main,
\* and the main area renders, after the button, one error message and
\* nothing else: no results, no link.
C6_FailureIsOneError ==
    callResult = "raised"
        => /\ sendCount = 1 /\ Len(sent) = 1
           /\ pc = "idle"
           /\ Count("error_analysis") = 1
           /\ display[Len(display)].kind = "error_analysis"
           /\ display[Len(display) - 1].kind = "button"
           /\ ~Has("subheader_results") /\ ~Has("markdown") /\ ~Has("link")
           /\ ~Has("error_init") /\ ~Has("info_upload") /\ ~Has("info_prompt")

C6_Witness == callResult = "raised" /\ Has("error_analysis")

\* C7: the request of every call holds one content, the message built from
\* this run's instructions and image, whatever earlier sessions exchanged;
\* the session is opened with an empty history and used for one send.
C7_FreshConversation ==
    /\ sendCount <= 1
    /\ pc = "calling" => chat = <<>>
    /\ sent # <<>>
          => /\ Len(sent) = 1
             /\ sent[1] = Message(custom_prompt, process_image(uploaded_file))

C7_Witness == earlier /\ callResult = "ok" /\ Len(chat) = 2

\* C8: the text part of the message is the template prefix, the
\* instructions exactly as typed, and the template suffix; the message is
\* that text followed by the decoded image.
C8_PromptVerbatim ==
    sent # <<>>
        => LET parts == sent[Len(sent)].parts IN
           /\ Len(parts) = 2
           /\ parts[1].type = "text"
           /\ parts[1].text = PromptPrefix \o custom_prompt \o PromptSuffix
           /\ parts[2].type = "image"
           /\ parts[2].image.kind = "image"
           /\ parts[2].image.file = uploaded_file

C8_Witness == sent # <<>> /\ custom_prompt = <<32>>

\* C9: every previewed image and every image sent to the remote model has
\* mode RGB; it was converted exactly when the uploaded picture was not RGB.
C9_AlwaysRGB ==
    LET rgb(image) == /\ image.mode = "RGB"
                      /\ image.converted <=> (image.file.mode # "RGB")
    IN /\ \A i \in 1..Len(display) :
             display[i].kind = "image" => rgb(display[i].image)
       /\ \A i \in 1..Len(sent) : \A j \in 1..Len(sent[i].parts) :
             sent[i].parts[j].type = "image" => rgb(sent[i].parts[j].image)

C9_Witness ==
    /\ sent # <<>> /\ sent[1].parts[2].image.converted
    /\ uploaded_file.mode = "L" /\ Has("image")

\* C10: results text and download link are rendered together or not at all,
\* only after this run's call returned, never beside an analysis error; a
\* failed model initialisation ends the run before the text area and the
\* button, with no request.
C10_ResultsAllOrNothing ==
    /\ Has("markdown") <=> Has("link")
    /\ Has("subheader_results") <=> Has("markdown")
    /\ Has("markdown") => (callResult = "ok" /\ sendCount = 1)
    /\ ~(Has("markdown") /\ Has("error_analysis"))
    /\ Has("error_init")
          => /\ ~Has("text_area") /\ ~Has("button")
             /\ sendCount = 0 /\ sent = <<>> /\ callResult = "none"
             /\ pc = "idle"

C10_Witness == Has("markdown") /\ Has("link") /\ callResult = "ok"

C10_InitFailureReached == Has("error_init") /\ uploaded_file # NoFile /\ clicked

====
